---- MODULE Spec2Model ----
(***************************************************************************)
(* Model of the dashboard sync pinger (src/unnamed/part_000): two tasks,   *)
(* "orders" on a fixed interval and "members" on an adaptive single-shot   *)
(* timer, both posting through postWithRetry.  Time is in milliseconds;    *)
(* the event loop is a discrete-event system: every pending timer, sleep   *)
(* and request carries the time left until it is due, and time passes by   *)
(* the smallest such amount.                                               *)
(***************************************************************************)
EXTENDS Integers, FiniteSets, Sequences, TLC

VARIABLES env, phase, exitCode, signal, ordersIntervalId, membersTimers,
          membersTimeoutId, runs, failures, ev

vars == <<env, phase, exitCode, signal, ordersIntervalId, membersTimers,
          membersTimeoutId, runs, failures, ev>>

----------------------------------------------------------------------------
(* Bounds of the model *)

\* the failure counters are followed while their sum is at most this value
MaxFailures == 6

----------------------------------------------------------------------------
(* Constants of the program *)

MAX_RETRIES == 3
FETCH_TIMEOUT_MS == 30000
CONSECUTIVE_FAILURE_THRESHOLD == 5
\* variant: a period of one minute, shorter than the longest attempt sequence
ORDERS_INTERVAL_OneMinute == 1000 * 60
ORDERS_INTERVAL == 1000 * 60 * 10
DEFAULT_MEMBERS_INTERVAL == 1000 * 60 * 5
NON_RETRYABLE_STATUSES == {400, 401, 403, 429}

Tasks == {"orders", "members"}
EnvNames == {"CRON_SECRET", "DASHBOARD_URL", "MEMBERS_URL"}
\* an environment variable is unset, set to the empty string, or set
EnvValues == {"undefined", "", "value"}
\* exitCode while the process is alive
NoExit == 0 - 1

----------------------------------------------------------------------------
(* JavaScript values, as far as the response body is inspected *)

Scalar(t, n) == [t |-> t, n |-> n]
Undefined == Scalar("undefined", 0)
JsValue(t, n, f) == [t |-> t, n |-> n, nextCheckInSeconds |-> f]
NoData == JsValue("undefined", 0, Undefined)

\* values of the field nextCheckInSeconds the endpoint may send
FieldValues == {Undefined, Scalar("string", 0), Scalar("number", -5),
                Scalar("number", 0), Scalar("number", 42)}

\* documents response.json() can produce
JsonValues == {JsValue("null", 0, Undefined), JsValue("number", 7, Undefined)}
                 \cup {JsValue("object", 0, f) : f \in FieldValues}

\* what the body of an ok response holds
Bodies == {[kind |-> "empty", data |-> NoData], [kind |-> "invalid", data |-> NoData]}
             \cup {[kind |-> "json", data |-> d] : d \in JsonValues}

Statuses == {200, 400, 401, 403, 429, 500}
\* the endpoint settles a request in time, or not before the request timeout
Latencies == {2000, FETCH_TIMEOUT_MS + 1000}

Falsy(v) == v \in {"undefined", ""}
Truthy(d) == ~(d.t \in {"undefined", "null"}) /\ ~(d.t = "number" /\ d.n = 0)
ResponseOk(status) == status \in 200..299

RECURSIVE Pow2(_)
Pow2(n) == IF n = 0 THEN 1 ELSE 2 * Pow2(n - 1)

Min(a, b) == IF a <= b THEN a ELSE b

----------------------------------------------------------------------------
(* Observation of the last step *)

NoEv == [kind |-> "none", task |-> "none", attempt |-> 0, cause |-> "none",
         status |-> 0, wait |-> 0, warned |-> FALSE, before |-> 0,
         ok |-> FALSE, data |-> NoData, armed |-> 0, sent |-> 0, waits |-> 0,
         elapsed |-> 0, inflight |-> {}, count0 |-> 0, first |-> FALSE]

Ev(kind, r) == [NoEv EXCEPT !.kind = kind, !.task = r.task, !.attempt = r.attempt,
                            !.before = failures[r.task], !.sent = r.sent,
                            !.waits = r.waits, !.elapsed = r.waited,
                            !.first = (r.task = "members" /\ membersTimeoutId = 0)]

----------------------------------------------------------------------------
Init ==
    /\ env \in [EnvNames -> EnvValues]
    /\ phase = "load"
    /\ exitCode = NoExit
    /\ signal = FALSE
    /\ ordersIntervalId = [active |-> FALSE, left |-> 0, elapsed |-> 0]
    /\ membersTimers = {}
    /\ membersTimeoutId = 0
    /\ runs = {}
    /\ failures = [t \in Tasks |-> 0]
    /\ ev = NoEv

----------------------------------------------------------------------------
(* Runtime primitives *)

\* setInterval(f, ms)
SetInterval(ms) == [active |-> TRUE, left |-> ms, elapsed |-> 0]
\* variant: the next period is counted from the end of the request timeout
Rearm_Drifting(iv, ms) == [iv EXCEPT !.left = ms + FETCH_TIMEOUT_MS, !.elapsed = 0]
\* an interval timer that fires is due again one period later
Rearm(iv, ms) == [iv EXCEPT !.left = ms, !.elapsed = 0]
ClearInterval(iv) == [active |-> FALSE, left |-> 0, elapsed |-> 0]
\* setTimeout(f, ms), returning timer id
SetTimeout(timers, id, ms) == timers \cup {[id |-> id, left |-> ms]}
\* variant: the timer stays armed after firing, as a repeating timer would
Fired_Repeating(timers, tm) == timers
\* a single-shot timer leaves the timer list when it fires
Fired(timers, tm) == timers \ {tm}
ClearTimeout(timers, id) == {tm \in timers : tm.id # id}
\* a timer id not in use
FreshId(timers) == CHOOSE id \in 1..(Cardinality(timers) + 1) :
                       \A tm \in timers : tm.id # id

\* variant: the call to process.exit is missing and the handler just returns
ProcessExit_Returns(code, loop) ==
    [phase |-> "running", exitCode |-> NoExit,
     interval |-> loop.interval, timers |-> loop.timers, runs |-> loop.runs]

\* variant: the exit leaves the requests in flight to run on
ProcessExit_Drains(code, loop) ==
    [phase |-> "exited", exitCode |-> code,
     interval |-> ClearInterval(loop.interval), timers |-> {}, runs |-> loop.runs]

\* process.exit(code): the process ends; whatever the event loop still held
\* (timers, sleeps, requests awaiting their response) is discarded with it
ProcessExit(code, loop) ==
    [phase |-> "exited", exitCode |-> code,
     interval |-> ClearInterval(loop.interval), timers |-> {}, runs |-> {}]

\* AbortSignal.timeout(FETCH_TIMEOUT_MS): a request whose response takes lat ms
\* settles after lat ms, or is aborted at the timeout
FetchLeft(lat) == Min(lat, FETCH_TIMEOUT_MS)
FetchTimedOut(lat) == lat >= FETCH_TIMEOUT_MS

----------------------------------------------------------------------------
(* postWithRetry *)

\* the first iteration of the loop: attempt = 1, the request is sent
NewRun(task, lat) ==
    [task |-> task, attempt |-> 1, pc |-> "fetch",
     left |-> FetchLeft(lat), timedOut |-> FetchTimedOut(lat),
     sent |-> 1, waits |-> 0, waited |-> 0,
     count0 |-> failures[task]]

\* variant: the exponent counts attempts from 0
Backoff_FromZero(attempt) == Pow2(attempt - 1) * 1000
Backoff(attempt) == Pow2(attempt) * 1000
\* variant: the last attempt is recognised one attempt too late
IsLastAttempt_OffByOne(attempt) == attempt = MAX_RETRIES + 1
IsLastAttempt(attempt) == attempt = MAX_RETRIES
\* variant: 429 is retried
IsNonRetryable_Without429(status) == status \in {400, 401, 403}
IsNonRetryable(status) == status \in NON_RETRYABLE_STATUSES
Escalated(count) == count >= CONSECUTIVE_FAILURE_THRESHOLD

\* variant: the check is >= 0 instead of > 0
NextInterval_AcceptsZero(result) ==
    IF result.ok /\ Truthy(result.data)
    THEN LET nextCheckInSeconds == result.data.nextCheckInSeconds
         IN  IF nextCheckInSeconds.t = "number" /\ nextCheckInSeconds.n >= 0
             THEN nextCheckInSeconds.n * 1000
             ELSE DEFAULT_MEMBERS_INTERVAL
    ELSE DEFAULT_MEMBERS_INTERVAL

\* variant: a failed invocation doubles the default delay
NextInterval_SlowsOnFailure(result) ==
    IF result.ok /\ Truthy(result.data)
    THEN LET nextCheckInSeconds == result.data.nextCheckInSeconds
         IN  IF nextCheckInSeconds.t = "number" /\ nextCheckInSeconds.n > 0
             THEN nextCheckInSeconds.n * 1000
             ELSE DEFAULT_MEMBERS_INTERVAL
    ELSE IF result.ok THEN DEFAULT_MEMBERS_INTERVAL ELSE 2 * DEFAULT_MEMBERS_INTERVAL

\* syncMembers, after postWithRetry has returned
NextInterval(result) ==
    IF result.ok /\ Truthy(result.data)
    THEN LET nextCheckInSeconds == result.data.nextCheckInSeconds
         IN  IF nextCheckInSeconds.t = "number" /\ nextCheckInSeconds.n > 0
             THEN nextCheckInSeconds.n * 1000
             ELSE DEFAULT_MEMBERS_INTERVAL
    ELSE DEFAULT_MEMBERS_INTERVAL

\* variant: syncMembers stops rescheduling once the failures have escalated
Return_StopsWhenEscalated(r, result, e) ==
    /\ runs' = runs \ {r}
    /\ UNCHANGED <<ordersIntervalId, phase, exitCode>>
    /\ IF r.task = "members" /\ (result.ok \/ ~Escalated(failures[r.task] + 1))
       THEN LET id == FreshId(membersTimers)
            IN  /\ membersTimers' = SetTimeout(membersTimers, id, NextInterval(result))
                /\ membersTimeoutId' = id
                /\ ev' = [e EXCEPT !.ok = result.ok, !.data = result.data,
                                   !.armed = NextInterval(result)]
       ELSE /\ UNCHANGED <<membersTimers, membersTimeoutId>>
            /\ ev' = [e EXCEPT !.ok = result.ok, !.data = result.data]

\* postWithRetry returns result to its caller, which runs to its end:
\* syncOrders only logs, syncMembers arms the next single-shot timer
Return(r, result, e) ==
    /\ runs' = runs \ {r}
    /\ UNCHANGED <<ordersIntervalId, phase, exitCode>>
    /\ IF r.task = "members"
       THEN LET id == FreshId(membersTimers)
            IN  /\ membersTimers' = SetTimeout(membersTimers, id, NextInterval(result))
                /\ membersTimeoutId' = id
                /\ ev' = [e EXCEPT !.ok = result.ok, !.data = result.data,
                                   !.armed = NextInterval(result)]
       ELSE /\ UNCHANGED <<membersTimers, membersTimeoutId>>
            /\ ev' = [e EXCEPT !.ok = result.ok, !.data = result.data]

Loop == [interval |-> ordersIntervalId, timers |-> membersTimers, runs |-> runs]

Exit(x) ==
    /\ phase' = x.phase
    /\ exitCode' = x.exitCode
    /\ ordersIntervalId' = x.interval
    /\ membersTimers' = x.timers
    /\ runs' = x.runs

\* variant: one counter shared by the two tasks
Increment_Shared(task) ==
    /\ failures["orders"] + failures["members"] < MaxFailures
    /\ failures' = [t \in Tasks |-> failures[t] + 1]

\* consecutiveFailures.count++
Increment(task) ==
    /\ failures["orders"] + failures["members"] < MaxFailures
    /\ failures' = [failures EXCEPT ![task] = @ + 1]

\* variant: every failed try is counted, not only the last one
Catch_CountsEveryTry(r, cause, status) ==
    IF IsLastAttempt(r.attempt)
    THEN /\ Increment(r.task)
         /\ Return(r, [ok |-> FALSE, data |-> NoData],
                   [Ev("exhausted", r) EXCEPT !.cause = cause, !.status = status,
                                              !.count0 = r.count0,
                                              !.warned = Escalated(failures[r.task] + 1)])
    ELSE LET delay == Backoff(r.attempt)
         IN  /\ Increment(r.task)
             /\ runs' = (runs \ {r}) \cup
                    {[r EXCEPT !.pc = "sleep", !.left = delay, !.waited = 0,
                               !.waits = @ + 1]}
             /\ ev' = [Ev("retry", r) EXCEPT !.cause = cause, !.status = status,
                                             !.wait = delay]
             /\ UNCHANGED <<ordersIntervalId, membersTimers,
                            membersTimeoutId, phase, exitCode>>

\* the catch block
Catch(r, cause, status) ==
    IF IsLastAttempt(r.attempt)
    THEN /\ Increment(r.task)
         /\ Return(r, [ok |-> FALSE, data |-> NoData],
                   [Ev("exhausted", r) EXCEPT !.cause = cause, !.status = status,
                                              !.count0 = r.count0,
                                              !.warned = Escalated(failures[r.task] + 1)])
    ELSE LET delay == Backoff(r.attempt)
         IN  /\ runs' = (runs \ {r}) \cup
                    {[r EXCEPT !.pc = "sleep", !.left = delay, !.waited = 0,
                               !.waits = @ + 1]}
             /\ ev' = [Ev("retry", r) EXCEPT !.cause = cause, !.status = status,
                                             !.wait = delay]
             /\ UNCHANGED <<failures, ordersIntervalId, membersTimers,
                            membersTimeoutId, phase, exitCode>>

\* variant: response.json() is awaited after the try block
InTry_BodyOutside(cause) == cause \in {"network", "timeout", "status"}

\* whether the place where the error is thrown lies inside the try block
InTry(cause) == cause \in {"network", "timeout", "status", "empty", "invalid"}

\* an error thrown in postWithRetry: caught by the catch block when thrown
\* inside the try block; otherwise the promise of postWithRetry and of its
\* caller rejects, nobody handles it, and the unhandledRejection handler exits
Throw(r, cause, status) ==
    IF InTry(cause)
    THEN Catch(r, cause, status)
    ELSE /\ Exit(ProcessExit(1, Loop))
         /\ ev' = [Ev("rejected", r) EXCEPT !.cause = cause, !.status = status]
         /\ UNCHANGED <<failures, membersTimeoutId>>

Due(r, pc) == phase = "running" /\ r.pc = pc /\ r.left = 0
Frame == UNCHANGED <<env, signal>>

\* the request is aborted by its timeout signal: fetch rejects
Timeout(r) ==
    /\ Due(r, "fetch") /\ r.timedOut
    /\ Throw(r, "timeout", 0)
    /\ Frame

\* the connection fails: fetch rejects
NetworkError(r) ==
    /\ Due(r, "fetch") /\ ~r.timedOut
    /\ Throw(r, "network", 0)
    /\ Frame

\* fetch resolves with a response of the given status
Response(r, status) ==
    /\ Due(r, "fetch") /\ ~r.timedOut
    /\ IF ~ResponseOk(status)
       THEN IF IsNonRetryable(status)
            THEN /\ Increment(r.task)
                 /\ Return(r, [ok |-> FALSE, data |-> NoData],
                           [Ev("nonretryable", r) EXCEPT !.cause = "status",
                                                         !.count0 = r.count0,
                                                         !.status = status])
            ELSE Throw(r, "status", status)
       ELSE /\ failures' = [failures EXCEPT ![r.task] = 0]
            /\ runs' = (runs \ {r}) \cup {[r EXCEPT !.pc = "json", !.waited = 0]}
            /\ ev' = [Ev("headers", r) EXCEPT !.cause = "status", !.status = status]
            /\ UNCHANGED <<ordersIntervalId, membersTimers, membersTimeoutId,
                           phase, exitCode>>
    /\ Frame

\* response.json() settles: it rejects on an empty or invalid body
Body(r, body) ==
    /\ Due(r, "json")
    /\ IF body.kind = "json"
       THEN /\ Return(r, [ok |-> TRUE, data |-> body.data],
                      [Ev("success", r) EXCEPT !.cause = "json"])
            /\ UNCHANGED failures
       ELSE Throw(r, body.kind, 0)
    /\ Frame

\* the backoff sleep is over: attempt++, and the next request is sent
Wake(r, lat) ==
    /\ Due(r, "sleep")
    /\ LET attempt == r.attempt + 1
       IN  IF attempt <= MAX_RETRIES
           THEN /\ runs' = (runs \ {r}) \cup
                      {[r EXCEPT !.attempt = attempt, !.pc = "fetch",
                                 !.left = FetchLeft(lat),
                                 !.timedOut = FetchTimedOut(lat),
                                 !.waited = 0, !.sent = @ + 1]}
                /\ ev' = [Ev("wake", r) EXCEPT !.attempt = attempt,
                                               !.sent = r.sent + 1]
                /\ UNCHANGED <<failures, ordersIntervalId, membersTimers,
                               membersTimeoutId, phase, exitCode>>
           ELSE /\ Return(r, [ok |-> FALSE, data |-> NoData], Ev("fallthrough", r))
                /\ UNCHANGED failures
    /\ Frame

----------------------------------------------------------------------------
(* Module top level: configuration checks, then the two schedulers *)

\* variant: MEMBERS_URL is not checked
FirstMissing_NoMembersUrl ==
    IF Falsy(env["CRON_SECRET"]) THEN "CRON_SECRET"
    ELSE IF Falsy(env["DASHBOARD_URL"]) THEN "DASHBOARD_URL"
    ELSE "none"

FirstMissing ==
    IF Falsy(env["CRON_SECRET"]) THEN "CRON_SECRET"
    ELSE IF Falsy(env["DASHBOARD_URL"]) THEN "DASHBOARD_URL"
    ELSE IF Falsy(env["MEMBERS_URL"]) THEN "MEMBERS_URL"
    ELSE "none"

Startup ==
    /\ phase = "load"
    /\ IF FirstMissing # "none"
       THEN /\ Exit(ProcessExit(1, Loop))
            /\ ev' = [NoEv EXCEPT !.kind = "exit", !.cause = FirstMissing]
            /\ UNCHANGED <<membersTimeoutId, failures>>
       ELSE /\ phase' = "running"
            /\ ordersIntervalId' = SetInterval(ORDERS_INTERVAL)
            /\ \E lo \in Latencies, lm \in Latencies :
                   runs' = {NewRun("orders", lo), NewRun("members", lm)}
            /\ ev' = [NoEv EXCEPT !.kind = "start"]
            /\ UNCHANGED <<exitCode, membersTimers, membersTimeoutId, failures>>
    /\ UNCHANGED <<env, signal>>

\* the orders interval timer fires: syncOrders is called
OrdersTimer(lat) ==
    /\ phase = "running"
    /\ ordersIntervalId.active /\ ordersIntervalId.left = 0
    /\ ordersIntervalId' = Rearm(ordersIntervalId, ORDERS_INTERVAL)
    /\ runs' = runs \cup {NewRun("orders", lat)}
    /\ ev' = [NoEv EXCEPT !.kind = "invoke", !.task = "orders",
                          !.before = failures["orders"],
                          !.elapsed = ordersIntervalId.elapsed,
                          !.inflight = {[task |-> r.task, pc |-> r.pc] : r \in runs}]
    /\ UNCHANGED <<membersTimers, membersTimeoutId, failures, phase, exitCode>>
    /\ Frame

\* a members single-shot timer fires: syncMembers is called
MembersTimer(tm, lat) ==
    /\ phase = "running"
    /\ tm \in membersTimers /\ tm.left = 0
    /\ membersTimers' = Fired(membersTimers, tm)
    /\ runs' = runs \cup {NewRun("members", lat)}
    /\ ev' = [NoEv EXCEPT !.kind = "invoke", !.task = "members",
                          !.before = failures["members"],
                          !.inflight = {[task |-> r.task, pc |-> r.pc] : r \in runs}]
    /\ UNCHANGED <<ordersIntervalId, membersTimeoutId, failures, phase, exitCode>>
    /\ Frame

\* SIGINT or SIGTERM: shutdown(signal)
Shutdown(sig) ==
    /\ phase = "running"
    /\ sig \in {"SIGINT", "SIGTERM"}
    /\ signal' = TRUE
    /\ Exit(ProcessExit(0, [interval |-> ClearInterval(ordersIntervalId),
                            timers |-> ClearTimeout(membersTimers, membersTimeoutId),
                            runs |-> runs]))
    /\ ev' = [NoEv EXCEPT !.kind = "shutdown",
                          !.inflight = {[task |-> r.task, pc |-> r.pc] : r \in runs}]
    /\ UNCHANGED <<env, membersTimeoutId, failures>>

----------------------------------------------------------------------------
(* The clock *)

\* variant: while a request or a sleep is pending, the timers are not served
Pending_RunsFirst ==
    IF runs # {} THEN {r.left : r \in runs}
    ELSE {tm.left : tm \in membersTimers}
             \cup (IF ordersIntervalId.active THEN {ordersIntervalId.left} ELSE {})

Pending ==
    {r.left : r \in runs} \cup {tm.left : tm \in membersTimers}
        \cup (IF ordersIntervalId.active THEN {ordersIntervalId.left} ELSE {})

Earliest == CHOOSE d \in Pending : \A e \in Pending : d <= e

\* nothing is due now: time passes until the earliest pending event is due
Tick ==
    /\ phase = "running"
    /\ Pending # {}
    /\ Earliest > 0
    /\ LET d == Earliest
       IN  /\ runs' = {[r EXCEPT !.left = @ - d, !.waited = @ + d] :
                           r \in runs}
           /\ membersTimers' = {[tm EXCEPT !.left = @ - d] : tm \in membersTimers}
           /\ ordersIntervalId' =
                  IF ordersIntervalId.active
                  THEN [ordersIntervalId EXCEPT !.left = @ - d, !.elapsed = @ + d]
                  ELSE ordersIntervalId
    /\ ev' = [NoEv EXCEPT !.kind = "tick"]
    /\ UNCHANGED <<env, phase, exitCode, signal, membersTimeoutId, failures>>

----------------------------------------------------------------------------
Next ==
    \/ Startup
    \/ \E r \in runs : Timeout(r)
    \/ \E r \in runs : NetworkError(r)
    \/ \E r \in runs, status \in Statuses : Response(r, status)
    \/ \E r \in runs, body \in Bodies : Body(r, body)
    \/ \E r \in runs, lat \in Latencies : Wake(r, lat)
    \/ \E lat \in Latencies : OrdersTimer(lat)
    \/ \E tm \in membersTimers, lat \in Latencies : MembersTimer(tm, lat)
    \/ \E sig \in {"SIGINT", "SIGTERM"} : Shutdown(sig)
    \/ Tick

Spec == Init /\ [][Next]_vars

\* what the event loop does by itself: every step but the arrival of a signal
Progress ==
    \/ \E r \in runs : Timeout(r)
    \/ \E r \in runs : NetworkError(r)
    \/ \E r \in runs, status \in Statuses : Response(r, status)
    \/ \E r \in runs, body \in Bodies : Body(r, body)
    \/ \E r \in runs, lat \in Latencies : Wake(r, lat)
    \/ \E lat \in Latencies : OrdersTimer(lat)
    \/ \E tm \in membersTimers, lat \in Latencies : MembersTimer(tm, lat)
    \/ Tick

----------------------------------------------------------------------------
(* Properties *)

Running(task) == {r \in runs : r.task = task}
Terminal == {"exhausted", "nonretryable", "fallthrough"}

\* C1: whenever a try receives a response with a successful status, the
\* sequence ends at that try with a Success outcome, also when the body is
\* absent or not JSON: counter 0, no backoff wait, no further request.
C1_OkResponseEndsInSuccess ==
    ev.cause \in {"json", "empty", "invalid"} =>
        /\ ev.kind = "success" /\ ev.ok
        /\ failures[ev.task] = 0
        /\ ev.wait = 0
        /\ Running(ev.task) = {}

\* C2 as stated: a non-retryable status means exactly one request was sent in
\* the attempt sequence and no retry wait occurred in it.
C2_ExactlyOneRequest ==
    ev.kind = "nonretryable" => ev.sent = 1 /\ ev.waits = 0

\* C2 as amended: a response with a status in {400, 401, 403, 429} to attempt k
\* ends the sequence at once with a Failure: k requests were sent (one when it
\* answers the first try), only the k-1 waits of the earlier tries occurred, no
\* wait and no further try follows it, and the counter is incremented by 1.
C2_NonRetryableEndsSequence ==
    (ev.cause = "status" /\ ev.status \in {400, 401, 403, 429}) =>
        /\ ev.kind = "nonretryable" /\ ~ev.ok
        /\ ev.sent = ev.attempt /\ ev.waits = ev.attempt - 1
        /\ ev.wait = 0
        /\ failures[ev.task] = ev.before + 1
        /\ Running(ev.task) = {}

C2_Witness ==
    ev.kind = "nonretryable" /\ ev.status = 429 /\ ev.attempt = 3

\* C3: a try that fails by network error, timeout or another not-ok status
\* is followed, on attempts 1 and 2, by a wait of 2 s resp. 4 s before the next
\* request, the counter unchanged; on attempt 3 by no wait, the counter
\* incremented by 1 and a Failure outcome.
C3_BackoffThenFailure ==
    /\ (\/ ev.cause \in {"network", "timeout"}
        \/ ev.cause = "status" /\ ev.status \in {500}) =>
           IF ev.attempt \in {1, 2}
           THEN /\ ev.kind = "retry"
                /\ ev.wait = (IF ev.attempt = 1 THEN 2000 ELSE 4000)
                /\ failures[ev.task] = ev.before
                /\ \E r \in Running(ev.task) :
                       r.pc = "sleep" /\ r.left = ev.wait /\ r.sent = ev.attempt
           ELSE /\ ev.kind = "exhausted" /\ ~ev.ok
                /\ ev.attempt = 3
                /\ ev.wait = 0
                /\ failures[ev.task] = ev.before + 1
                /\ Running(ev.task) = {}
    /\ ev.kind = "wake" =>
           /\ ev.attempt \in {2, 3}
           /\ ev.elapsed = (IF ev.attempt = 2 THEN 2000 ELSE 4000)
           /\ ev.sent = ev.attempt

C3_Witness ==
    ev.kind = "exhausted" /\ ev.cause = "timeout" /\ ev.waits = 2

\* C4: every terminal failure (exhausted tries or non-retryable status) that
\* leaves the task's counter at 5 or more emits the escalated warning.
C4_EveryTerminalFailureWarns ==
    (ev.kind \in {"exhausted", "nonretryable"} /\ failures[ev.task] >= 5)
        => ev.warned

\* C5: after each invocation of the members task the armed timer's delay is
\* nextCheckInSeconds * 1000 when the outcome is a Success whose data has a
\* numeric nextCheckInSeconds > 0, and 300000 ms in every other case.
C5_AdaptiveDelay ==
    (ev.task = "members" /\ ev.kind \in Terminal \cup {"success"}) =>
        LET f == ev.data.nextCheckInSeconds
            expected == IF ev.ok /\ ev.data.t = "object" /\ f.t = "number" /\ f.n > 0
                        THEN f.n * 1000
                        ELSE 300000
        IN  /\ ev.armed = expected
            /\ \E tm \in membersTimers : tm.left = expected /\ tm.id = membersTimeoutId

C5_Witness ==
    /\ ev.task = "members" /\ ev.kind = "success" /\ ev.armed = 42000
    /\ ev.data.nextCheckInSeconds = Scalar("number", 42)

\* C6: while the process runs, either one members sequence is in flight and no
\* members timer is pending, or none is in flight and exactly one is pending.
C6_OneSequenceOrOneTimer ==
    phase = "running" =>
        \/ Cardinality(Running("members")) = 1 /\ membersTimers = {}
        \/ Running("members") = {} /\ Cardinality(membersTimers) = 1

C6_Witness ==
    /\ phase = "running" /\ membersTimers = {}
    /\ \E r \in Running("members") : r.pc = "sleep" /\ r.attempt = 2 /\ r.left = 0

\* C7: the orders task is invoked at startup and then every 600000 ms whatever
\* the outcome or duration of earlier invocations: the interval timer is never
\* cancelled, delayed or re-armed by an outcome.
C7_FixedPeriod ==
    /\ ev.kind = "start" =>
           \E r \in Running("orders") : r.attempt = 1 /\ r.pc = "fetch" /\ r.waited = 0
    /\ phase = "running" =>
           /\ ordersIntervalId.active
           /\ ordersIntervalId.left + ordersIntervalId.elapsed = 600000
    /\ (ev.kind = "invoke" /\ ev.task = "orders") => ev.elapsed = 600000

C7_Witness ==
    ev.kind = "invoke" /\ ev.task = "orders" /\ ev.before = 2

\* C8: a termination signal, whatever is pending, cancels both timers and exits
\* with code 0; nothing happens afterwards: no invocation, no request, and a
\* members sequence in flight at the signal does not re-arm its timer.
C8_ShutdownStopsEverything ==
    signal =>
        /\ phase = "exited" /\ exitCode = 0
        /\ ~ordersIntervalId.active /\ membersTimers = {}
        /\ runs = {}
        /\ ev.kind = "shutdown"

C8_Witness ==
    /\ signal /\ exitCode = 0
    /\ [task |-> "members", pc |-> "sleep"] \in ev.inflight
    /\ [task |-> "orders", pc |-> "fetch"] \in ev.inflight

\* C9 as stated: the shutdown does not interrupt a sequence in flight, which is
\* still in flight after the signal has been handled.
C9_InFlightSurvivesShutdown ==
    ev.kind = "shutdown" =>
        \A x \in ev.inflight : \E r \in Running(x.task) : r.pc = x.pc

\* C9 as amended: the shutdown cancels the timers and exits without waiting for
\* a sequence in flight; the exit abandons that sequence: its outcome is never
\* handled, so no counter changes, no retry is sent and no timer is armed.
C9_ShutdownAbandonsInFlight ==
    [][/\ ~signal
       /\ (signal' /\ runs # {}) =>
              /\ runs' = {}
              /\ failures' = failures
              /\ membersTimers' = {}
              /\ phase' = "exited"]_vars

C9_Witness ==
    signal /\ [task |-> "members", pc |-> "fetch"] \in ev.inflight

\* C10: with any of the three configuration values missing the process exits
\* with code 1 before any scheduler starts (no request, no timer, no counter
\* change); with all three set it never exits with code 1.
C10_ConfigurationCheck ==
    /\ phase = "load" =>
           runs = {} /\ membersTimers = {} /\ ~ordersIntervalId.active
    /\ (phase # "load" /\ \E n \in EnvNames : env[n] \in {"undefined", ""}) =>
           /\ phase = "exited" /\ exitCode = 1
           /\ runs = {} /\ membersTimers = {} /\ ~ordersIntervalId.active
           /\ \A t \in Tasks : failures[t] = 0
           /\ ev.kind = "exit"
    /\ (\A n \in EnvNames : env[n] = "value") => exitCode # 1

C10_Witness ==
    /\ exitCode = 1
    /\ env["CRON_SECRET"] = "undefined"
    /\ env["DASHBOARD_URL"] = "value" /\ env["MEMBERS_URL"] = "value"

\* C11: no outcome of a try escapes postWithRetry: every settled try is handled
\* inside it (retry, or a returned result), the unhandledRejection handler never
\* runs, and with the configuration set the process never exits with code 1.
C11_NothingEscapes ==
    /\ ev.kind # "rejected"
    /\ ev.cause \in {"network", "timeout", "status", "empty", "invalid", "json"} =>
           /\ ev.kind \in {"retry", "exhausted", "nonretryable", "headers", "success"}
           /\ phase = "running"
           /\ ev.kind \in {"exhausted", "nonretryable", "success"} =>
                  Running(ev.task) = {} /\ ev.ok = (ev.kind = "success")
    /\ exitCode = 1 => ev.kind = "exit" /\ FirstMissing # "none"

C11_Witness ==
    ev.kind = "exhausted" /\ ev.cause = "invalid" /\ phase = "running"

\* the first members sequence, started at startup together with the orders
\* interval, ends with its third try timing out 96 s after startup, that is
\* 30 + 2 + 30 + 4 + 30 s: all three tries timed out
ThreeTimeoutsAfterStartup ==
    /\ ev.task = "members" /\ ev.kind = "exhausted" /\ ev.cause = "timeout"
    /\ ev.first
    /\ ordersIntervalId.elapsed = 96000

\* C12 as stated: after startup and 3 consecutive timeouts of the members task
\* its counter is 3, the next invocation is armed after 300000 ms, no warning.
C12_ThreeTimeoutsCountThree ==
    ThreeTimeoutsAfterStartup =>
        failures["members"] = 3 /\ ev.armed = 300000 /\ ~ev.warned

\* C12 as amended: both tasks are invoked at startup; after 3 consecutive
\* timeouts of the members task (its three tries) the counter is 1, the next
\* invocation is armed after 300000 ms and no warning is emitted; the counter
\* is 3 only after the third consecutive invocation that ends in failure.
C12_ThreeTimeoutsCountOne ==
    /\ ev.kind = "start" =>
           \A t \in Tasks : \E r \in Running(t) :
               r.attempt = 1 /\ r.pc = "fetch" /\ r.waited = 0
    /\ ThreeTimeoutsAfterStartup =>
           /\ failures["members"] = 1 /\ ev.sent = 3
           /\ ev.armed = 300000 /\ ~ev.warned
           /\ membersTimers = {[id |-> membersTimeoutId, left |-> 300000]}
    /\ (ev.task = "members" /\ ev.kind = "exhausted" /\ ev.cause = "timeout"
            /\ ev.count0 = 2 /\ ev.before = 2) =>
           failures["members"] = 3 /\ ev.armed = 300000 /\ ~ev.warned

C12_Witness == ThreeTimeoutsAfterStartup

\* C14: a sequence that ends in Success leaves the task's counter at 0 and a
\* sequence that ends in Failure leaves it at its value at the start of the
\* sequence plus 1, so that the counter is the number of failed sequences since
\* the last successful one.
C14_CounterCountsFailures ==
    /\ ev.kind = "success" => failures[ev.task] = 0
    /\ ev.kind \in {"exhausted", "nonretryable"} =>
           failures[ev.task] = ev.count0 + 1

AtBound == failures["orders"] + failures["members"] >= MaxFailures
FailureKinds == {"exhausted", "nonretryable"}

\* C13: a terminal failure ends the current cycle only.  After a sequence that
\* ends in Failure, at any counter value, the next invocation stays scheduled
\* (members: a timer 300000 ms ahead; orders: the interval timer, untouched),
\* the event loop is never stuck, so that the timer comes due, a due timer can
\* always fire, and the invocation it starts is at attempt 1 with no request or
\* wait spent, whatever the counter.
C13_NextCycleNormal ==
    /\ (ev.kind \in FailureKinds /\ ev.task = "members") =>
           /\ phase = "running"
           /\ membersTimers = {[id |-> membersTimeoutId, left |-> 300000]}
    /\ (ev.kind \in FailureKinds /\ ev.task = "orders") =>
           /\ phase = "running"
           /\ ordersIntervalId.active /\ ordersIntervalId.left > 0
           /\ ordersIntervalId.left = 600000 - ordersIntervalId.elapsed
    /\ phase = "running" =>
           /\ AtBound \/ ENABLED Progress
           /\ (ordersIntervalId.active /\ ordersIntervalId.left = 0) =>
                  ENABLED (\E lat \in Latencies : OrdersTimer(lat))
           /\ \A tm \in membersTimers : tm.left = 0 =>
                  ENABLED (\E lat \in Latencies : MembersTimer(tm, lat))
    /\ ev.kind = "invoke" =>
           \E r \in Running(ev.task) :
               /\ r.attempt = 1 /\ r.pc = "fetch" /\ r.sent = 1 /\ r.waits = 0
               /\ r.waited = 0 /\ r.count0 = ev.before
               /\ failures[ev.task] = ev.before

C13_Witness ==
    ev.kind = "invoke" /\ ev.task = "members" /\ ev.before >= 5

\* the longest attempt sequence: three tries ended by the request timeout and
\* the two backoff waits between them
LongestSequence == MAX_RETRIES * FETCH_TIMEOUT_MS + Backoff(1) + Backoff(2)

\* C15: the orders interval never starts an invocation while an earlier orders
\* sequence is in flight: at most one orders sequence exists, it is over
\* within 96 s of the tick that started it, and when the interval fires no
\* orders sequence is awaiting a response or sleeping.
C15_OrdersNeverOverlap ==
    /\ Cardinality(Running("orders")) <= 1
    /\ Running("orders") # {} => ordersIntervalId.elapsed <= LongestSequence
    /\ (ev.kind = "invoke" /\ ev.task = "orders") =>
           /\ \A x \in ev.inflight : x.task # "orders"
           /\ \A r \in Running("orders") : r.attempt = 1 /\ r.pc = "fetch"

C15_Witness ==
    /\ ev.kind = "invoke" /\ ev.task = "orders" /\ ev.before >= 1
    /\ ev.elapsed = ORDERS_INTERVAL

\* C16: within one attempt sequence the failure counter goes up at most once,
\* by the step that ends the sequence in Failure.  A retryable failure on
\* attempt 1 or 2, a wake-up and an invocation leave it unchanged; while the
\* sequence is in flight the counter is what it was at its start or 0; the
\* ending step adds exactly 1.
C16_CountedOncePerSequence ==
    /\ \A r \in runs : failures[r.task] \in {r.count0, 0}
    /\ ev.kind \in {"retry", "wake", "invoke"} => failures[ev.task] = ev.before
    /\ ev.kind = "retry" => ev.attempt \in {1, 2}
    /\ ev.kind \in FailureKinds =>
           /\ failures[ev.task] = ev.before + 1
           /\ ev.before \in {ev.count0, 0}
           /\ Running(ev.task) = {}
    /\ ev.kind = "exhausted" => ev.attempt = MAX_RETRIES
    /\ ev.kind = "headers" => failures[ev.task] = 0
    /\ ev.kind = "success" => failures[ev.task] = ev.before

C16_Witness ==
    /\ ev.kind = "exhausted" /\ ev.cause = "timeout" /\ ev.sent = 3
    /\ ev.count0 = 2 /\ failures[ev.task] = 3

\* the handler that continues the sequence r once what it awaits has settled
Continue(r) ==
    \/ Timeout(r)
    \/ NetworkError(r)
    \/ \E status \in Statuses : Response(r, status)
    \/ \E body \in Bodies : Body(r, body)
    \/ \E lat \in Latencies : Wake(r, lat)

TerminalKinds == {"success", "exhausted", "nonretryable", "fallthrough"}

\* C17: every attempt sequence terminates.  A sequence in flight is at attempt
\* 1..3, has sent as many requests as its attempt number and slept at most
\* twice; what it awaits is due within the request timeout (a request) or
\* within the backoff delay (a sleep), and once due its continuation can run;
\* each retry moves it to the sleep of the same attempt with one more wait and
\* each wake-up to the request of the next attempt, so that it cannot cycle;
\* it returns after 1..3 requests and at most 2 waits, and the loop is never
\* left without a return.
C17_SequenceTerminates ==
    /\ \A r \in runs :
           /\ r.attempt \in 1..MAX_RETRIES /\ r.sent = r.attempt
           /\ r.waits = IF r.pc = "sleep" THEN r.attempt ELSE r.attempt - 1
           /\ r.waits <= 2 /\ r.left >= 0
           /\ r.pc = "fetch" => r.waited + r.left <= FETCH_TIMEOUT_MS
           /\ r.pc = "json" => r.left = 0
           /\ r.pc = "sleep" => r.waited + r.left = Backoff(r.attempt)
           /\ (phase = "running" /\ r.left = 0) => AtBound \/ ENABLED Continue(r)
    /\ (phase = "running" /\ runs # {}) => AtBound \/ ENABLED Progress
    /\ ev.kind = "retry" =>
           \E r \in Running(ev.task) :
               r.pc = "sleep" /\ r.attempt = ev.attempt /\ r.waits = ev.waits + 1
    /\ ev.kind = "wake" =>
           \E r \in Running(ev.task) :
               r.pc = "fetch" /\ r.attempt = ev.attempt /\ r.sent = ev.sent
                   /\ ev.attempt >= 2
    /\ ev.kind \in TerminalKinds =>
           /\ ev.sent \in 1..MAX_RETRIES /\ ev.waits <= 2
           /\ ev.kind # "fallthrough"
           /\ Running(ev.task) = {}

C17_Witness ==
    ev.kind = "exhausted" /\ ev.sent = 3 /\ ev.waits = 2 /\ ev.cause = "timeout"

\* C18: the two tasks progress independently.  Whatever the other task is
\* doing, a due timer can fire and a due continuation can run, nothing
\* pending is ever overdue, the orders interval fires exactly one period after
\* its previous tick, and each task has at most one sequence in flight, so
\* that two sequences in flight are one of each task.
C18_TasksIndependent ==
    /\ phase = "running" =>
           /\ (ordersIntervalId.active /\ ordersIntervalId.left = 0) =>
                  ENABLED (\E lat \in Latencies : OrdersTimer(lat))
           /\ \A tm \in membersTimers : tm.left = 0 =>
                  ENABLED (\E lat \in Latencies : MembersTimer(tm, lat))
           /\ \A r \in runs : r.left = 0 => AtBound \/ ENABLED Continue(r)
    /\ \A d \in Pending : d >= 0
    /\ (ev.kind = "invoke" /\ ev.task = "orders") => ev.elapsed = ORDERS_INTERVAL
    /\ ev.kind = "invoke" => \E r \in Running(ev.task) : r.waited = 0
    /\ \A t \in Tasks : Cardinality(Running(t)) <= 1

C18_Witness ==
    /\ ev.kind = "invoke" /\ ev.task = "orders"
    /\ [task |-> "members", pc |-> "sleep"] \in ev.inflight
    /\ \E r \in Running("members") : r.pc = "sleep" /\ r.waited > 0

\* C19: task isolation.  A step of an orders sequence or of the orders timer
\* leaves the members counter, the members timers and the id of the pending
\* members timer unchanged; a step of a members sequence or timer leaves the
\* orders counter and the orders interval unchanged; the warning of a
\* terminal failure is decided by the counter of the failing task alone.
C19_Isolated ==
    /\ ev'.task = "orders" =>
           /\ failures'["members"] = failures["members"]
           /\ membersTimers' = membersTimers
           /\ membersTimeoutId' = membersTimeoutId
           /\ Running("members")' = Running("members")
    /\ ev'.task = "members" =>
           /\ failures'["orders"] = failures["orders"]
           /\ ordersIntervalId' = ordersIntervalId
           /\ Running("orders")' = Running("orders")
    /\ ev'.kind = "exhausted" =>
           (ev'.warned <=> failures'[ev'.task] >= CONSECUTIVE_FAILURE_THRESHOLD)

C19_TaskIsolation == [][C19_Isolated]_vars

C19_Witness ==
    /\ ev.kind = "exhausted" /\ ev.task = "orders" /\ ~ev.warned
    /\ failures["members"] >= CONSECUTIVE_FAILURE_THRESHOLD
====
